---- MODULE Spec2Model ----
(***************************************************************************)
(* Model of nano_banana_resizer.py: NanoBananaSizeCalculator.              *)
(*                                                                         *)
(* The node is stateless.  A behaviour of the model is one call of         *)
(* calculate_size: the initial state holds the arguments (the preset       *)
(* string and the image whose shape gives h and w), the single action      *)
(* CalculateSize runs the whole method and stores the tuple it returns.    *)
(*                                                                         *)
(* Strings that the code inspects character by character (the preset, for  *)
(* the tests '"1K" in preset' and '"2K" in preset') are sequences of       *)
(* one-character strings.                                                  *)
(***************************************************************************)
EXTENDS Integers, Sequences, FiniteSets

VARIABLES preset, image, pc, result

vars == <<preset, image, pc, result>>

----------------------------------------------------------------------------
(* Class data                                                              *)

\* SUPPORTED_ARS, in the insertion order of the dict; val is the tabulated
\* decimal value multiplied by 10^6 (every entry has at most six decimals).
SUPPORTED_ARS ==
    << [name |-> "1:1",  val |-> 1000000],
       [name |-> "3:2",  val |-> 1500000],
       [name |-> "2:3",  val |->  666667],
       [name |-> "3:4",  val |->  750000],
       [name |-> "4:3",  val |-> 1333333],
       [name |-> "4:5",  val |->  800000],
       [name |-> "5:4",  val |-> 1250000],
       [name |-> "9:16", val |->  562500],
       [name |-> "16:9", val |-> 1777778],
       [name |-> "21:9", val |-> 2333333] >>

BUCKETS_NB1 ==
    << <<512, 2048>>, <<576, 1792>>, <<736, 1408>>, <<768, 1344>>, <<800, 1280>>,
       <<832, 1248>>, <<864, 1184>>, <<896, 1152>>, <<928, 1120>>, <<960, 1088>>,
       <<1024, 1024>>, <<1088, 960>>, <<1120, 928>>, <<1152, 896>>, <<1184, 864>>,
       <<1248, 832>>, <<1280, 800>>, <<1344, 768>>, <<1408, 736>>, <<1472, 704>>,
       <<1792, 576>>, <<2048, 512>> >>

BUCKETS_NB2_1K ==
    << <<768, 1344>>, <<800, 1280>>, <<832, 1248>>, <<864, 1184>>, <<896, 1152>>,
       <<928, 1120>>, <<960, 1088>>, <<992, 1056>>, <<1024, 1024>>, <<1056, 992>>,
       <<1088, 960>>, <<1120, 928>>, <<1152, 896>>, <<1184, 864>>, <<1248, 832>>,
       <<1280, 800>>, <<1344, 768>> >>

BUCKETS_NB2_2K ==
    << <<1024, 4096>>, <<1088, 3840>>, <<1152, 3584>>, <<1216, 3328>>, <<1280, 3072>>,
       <<1344, 2816>>, <<1408, 2560>>, <<1472, 2816>>, <<1536, 2688>>, <<1600, 2560>>,
       <<1664, 2496>>, <<1696, 2528>>, <<1728, 2368>>,
       <<1760, 2432>>, <<2432, 1760>>,
       <<1792, 2304>>, <<1856, 2240>>,
       <<1920, 2176>>, <<1984, 2048>>, <<2048, 2048>>, <<2176, 1920>>, <<2240, 1856>>,
       <<2304, 1792>>, <<2368, 1728>>, <<2496, 1664>>, <<2560, 1600>>, <<2688, 1536>>,
       <<2816, 1472>>, <<3072, 1280>>, <<3328, 1216>>, <<3584, 1152>>, <<3840, 1088>>,
       <<4096, 1024>> >>

BUCKETS_NB2_4K ==
    << <<2048, 8192>>, <<2176, 7680>>, <<2304, 7168>>, <<2432, 6656>>, <<2560, 6144>>,
       <<2688, 5632>>, <<2816, 5120>>, <<2944, 5632>>, <<3072, 5376>>, <<3200, 5120>>,
       <<3328, 4992>>, <<3392, 5056>>, <<3456, 4736>>, <<3584, 4608>>, <<3712, 4480>>,
       <<3840, 4352>>, <<3968, 4096>>, <<4096, 4096>>, <<4352, 3840>>, <<4480, 3712>>,
       <<4608, 3584>>, <<4736, 3456>>, <<4992, 3328>>, <<5120, 3200>>, <<5376, 3072>>,
       <<5632, 2944>>, <<6144, 2560>>, <<6656, 2432>>, <<7168, 2304>>, <<7680, 2176>>,
       <<8192, 2048>> >>

\* The four preset names offered by INPUT_TYPES.
PresetNB1 == <<"N","a","n","o"," ","B","a","n","a","n","a"," ","1">>
PresetNB2_1K == <<"N","a","n","o"," ","B","a","n","a","n","a"," ","2"," ","(","1","K",")">>
PresetNB2_2K == <<"N","a","n","o"," ","B","a","n","a","n","a"," ","2"," ","(","2","K",")">>
PresetNB2_4K == <<"N","a","n","o"," ","B","a","n","a","n","a"," ","2"," ","(","4","K",")">>

INPUT_TYPES == {PresetNB1, PresetNB2_1K, PresetNB2_2K, PresetNB2_4K}

----------------------------------------------------------------------------
(* Arithmetic helpers                                                      *)

Abs(x) == IF x < 0 THEN -x ELSE x

RECURSIVE GCD(_, _)
GCD(a, b) == IF b = 0 THEN a ELSE GCD(b, a % b)

\* Python's "sub in s" on strings.
Contains(sub, s) ==
    \E i \in 0..(Len(s) - Len(sub)) : SubSeq(s, i + 1, i + Len(sub)) = sub

----------------------------------------------------------------------------
(* _closest_bucket                                                         *)

\* dist_sq of one bucket (line 116).
DistSq(w_in, h_in, bucket) ==
    (w_in - bucket[1]) ^ 2 + (h_in - bucket[2]) ^ 2

\* The list built by the loop of lines 114-117: (dist_sq, w_bucket, h_bucket).
Candidates(w_in, h_in, buckets) ==
    [i \in 1..Len(buckets) |->
        <<DistSq(w_in, h_in, buckets[i]), buckets[i][1], buckets[i][2]>>]

\* A scan that keeps the last candidate of least dist_sq: what an unstable
\* sort, or a comparison with <=, would put in front.
RECURSIVE SortedHeadLastTie(_)
SortedHeadLastTie(candidates) ==
    IF Len(candidates) = 1 THEN candidates[1]
    ELSE LET rest == SortedHeadLastTie(Tail(candidates))
         IN  IF candidates[1][1] < rest[1] THEN candidates[1] ELSE rest

\* candidates.sort(key=lambda x: x[0]); candidates[0]  (lines 119-120).
\* list.sort is stable and compares the key only, so the head of the sorted
\* list is the first candidate, in list order, of least dist_sq.
RECURSIVE SortedHead(_)
SortedHead(candidates) ==
    IF Len(candidates) = 1 THEN candidates[1]
    ELSE LET rest == SortedHead(Tail(candidates))
         IN  IF candidates[1][1] <= rest[1] THEN candidates[1] ELSE rest

\* w_target, h_target = (1696, 2528)  (line 125).
w_target == 1696
h_target == 2528

\* The manual override with both tests made inclusive.
OverrideFiresInclusive(w_in, h_in) ==
    /\ 1650 <= w_in /\ w_in <= 1750
    /\ 2350 <= h_in /\ h_in <= 2550
    /\ (w_in - w_target) ^ 2 + (h_in - h_target) ^ 2 <= 8000

\* Lines 127-131: the band test and the distance test of the manual override.
OverrideFires(w_in, h_in) ==
    /\ 1650 < w_in /\ w_in < 1750
    /\ 2350 < h_in /\ h_in < 2550
    /\ (w_in - w_target) ^ 2 + (h_in - h_target) ^ 2 < 8000

\* The overflow test written with >= instead of >.
FallbackFiresInclusive(best_dist, buckets) ==
    best_dist >= 8000 /\ Len(buckets) > 20

\* Line 136: if best_dist > 8000 and len(buckets) > 20.
FallbackFires(best_dist, buckets) ==
    best_dist > 8000 /\ Len(buckets) > 20

\* Rounding down instead of up.
FloorTo32(x) == (x \div 32) * 32

\* math.ceil(x / 32) * 32  (lines 141-142).  x / 32 is a float division by a
\* power of two, exact for |x| < 2^53, so the ceiling is the integer one;
\* \div rounds towards minus infinity, hence the double negation.
CeilTo32(x) == (-((-x) \div 32)) * 32

\* The fallback aligned by rounding down: a dimension below 32 becomes 0.
DynamicSizeRoundedDown(w_in, h_in) == <<(w_in \div 32) * 32, (h_in \div 32) * 32>>

\* Lines 138-144: the dynamically computed pair.
DynamicSize(w_in, h_in) == <<CeilTo32(w_in), CeilTo32(h_in)>>

\* _closest_bucket (lines 111-147).
ClosestBucket(w_in, h_in, buckets) ==
    LET best == SortedHead(Candidates(w_in, h_in, buckets))
        best_dist == best[1]
        best_w == best[2]
        best_h == best[3]
    IN  IF OverrideFires(w_in, h_in) THEN <<w_target, h_target>>
        ELSE IF FallbackFires(best_dist, buckets) THEN DynamicSize(w_in, h_in)
        ELSE <<best_w, best_h>>

----------------------------------------------------------------------------
(* _detect_aspect_ratio                                                    *)
(*                                                                         *)
(* The code works on floats: current_ar = w / h, diff = abs(current_ar -   *)
(* ar_val).  With w / h = a / b in lowest terms and ar_val = val / 10^6,   *)
(* the exact difference is DiffNum / (|b| * 10^6), so differences of one   *)
(* call are compared through their numerators.  Two exact differences, or  *)
(* an exact difference and 0.01, that are not equal differ by at least     *)
(* 1 / (|b| * 10^6), far more than the rounding error of the three float   *)
(* operations (below 10^-15 for ratios under 2^31), so the float           *)
(* comparisons agree with the exact ones except where the exact values are *)
(* equal.  Equal differences to two table entries put the ratio halfway    *)
(* between them, at least 0.025 from both, where the result is "auto"      *)
(* whichever entry is kept.  An exact difference of 0.01 is decided by the *)
(* rounding of the subtraction: DiffAtToleranceExceeds.                    *)

\* diff * |b| * 10^6 for the ratio a / b and a table value val / 10^6.
DiffNum(a, b, val) == Abs(a * 1000000 - val * b)

\* min_diff = float('inf') (line 94).
Inf == -1

\* diff < min_diff (line 99).
Less(diff, min_diff) == min_diff = Inf \/ diff < min_diff

\* The loop of lines 97-101 from entry i on: <<min_diff, best_ar_str>>.
RECURSIVE ClosestAR(_, _, _, _, _)
ClosestAR(a, b, i, min_diff, best_ar_str) ==
    IF i > Len(SUPPORTED_ARS) THEN <<min_diff, best_ar_str>>
    ELSE LET diff == DiffNum(a, b, SUPPORTED_ARS[i].val)
         IN  IF Less(diff, min_diff)
             THEN ClosestAR(a, b, i + 1, diff, SUPPORTED_ARS[i].name)
             ELSE ClosestAR(a, b, i + 1, min_diff, best_ar_str)

\* Whether abs(w / h - ar_val) > 0.01 in IEEE double arithmetic when the
\* ratio is exactly ar_val + 0.01 (above) or ar_val - 0.01 (below).  For every
\* entry of SUPPORTED_ARS the rounded difference is 0.010000000000000009 (or
\* 0.010000000000000231 below 21:9), which exceeds the double 0.01, except
\* above 21:9, where it is 0.009999999999999787.
DiffAtToleranceExceeds(ar_str, above) == ~(ar_str = "21:9" /\ above)

\* The cut-off dropped: the closest name is always reported.
ExceedsToleranceNever(a, b, min_diff, best_ar_str) == FALSE

\* min_diff > 0.01 (line 105).
ExceedsTolerance(a, b, min_diff, best_ar_str) ==
    IF min_diff = 10000 * Abs(b)
    THEN LET val == (CHOOSE e \in {SUPPORTED_ARS[i] : i \in 1..Len(SUPPORTED_ARS)} :
                        e.name = best_ar_str).val
         IN  DiffAtToleranceExceeds(best_ar_str, (a * 1000000 > val * b) = (b > 0))
    ELSE min_diff > 10000 * Abs(b)

\* _detect_aspect_ratio (lines 88-108).
DetectAspectRatio(w, h) ==
    IF h = 0 THEN "auto"
    ELSE LET g == GCD(Abs(w), Abs(h))
             a == w \div g
             b == h \div g
             best == ClosestAR(a, b, 1, Inf, "auto")
         IN  IF ExceedsTolerance(a, b, best[1], best[2]) THEN "auto" ELSE best[2]

----------------------------------------------------------------------------
(* calculate_size                                                          *)

\* Lines 153-164: the bucket list and the version_info of a preset string.
SelectBuckets(p) ==
    IF p = PresetNB1
    THEN [target_buckets |-> BUCKETS_NB1, version_info |-> PresetNB1]
    ELSE IF Contains(<<"1", "K">>, p)
    THEN [target_buckets |-> BUCKETS_NB2_1K, version_info |-> PresetNB2_1K]
    ELSE IF Contains(<<"2", "K">>, p)
    THEN [target_buckets |-> BUCKETS_NB2_2K, version_info |-> PresetNB2_2K]
    ELSE [target_buckets |-> BUCKETS_NB2_4K, version_info |-> PresetNB2_4K]

\* The tuple returned on line 174.  info is the f-string of line 172, kept as
\* the sequence of the values it interpolates.
SizeResult(img, p) ==
    LET w == img.w
        h == img.h
        tier == SelectBuckets(p)
        out == ClosestBucket(w, h, tier.target_buckets)
        w_out == out[1]
        h_out == out[2]
        aspect_ratio == DetectAspectRatio(w_out, h_out)
        info == <<tier.version_info, w_out, h_out, aspect_ratio, w, h>>
    IN  <<w_out, h_out, info, aspect_ratio>>

----------------------------------------------------------------------------
(* Inputs                                                                  *)

\* Offsets explored around each point of interest.
Radius == 1
\* The coarse grid has the points 250 * i, i in 0..GridMax, on both axes.
GridMax == 40

SeqRange(s) == {s[i] : i \in 1..Len(s)}

AllBuckets ==
    SeqRange(BUCKETS_NB1) \cup SeqRange(BUCKETS_NB2_1K)
        \cup SeqRange(BUCKETS_NB2_2K) \cup SeqRange(BUCKETS_NB2_4K)

\* Points halfway between two consecutive buckets of a list.
Midpoints(s) ==
    {<<(s[i][1] + s[i + 1][1]) \div 2, (s[i][2] + s[i + 1][2]) \div 2>> :
        i \in 1..(Len(s) - 1)}

\* The documented problem case, the corners of the override band, points at
\* squared distance 8000 and 2000 from a bucket, far outliers, pairs whose
\* ratio is 0.01 from a supported one, and the origin.
Centers ==
    { <<1704, 2461>>, <<1736, 2448>>, <<1650, 2350>>, <<1750, 2550>>,
      <<1650, 2550>>, <<1750, 2350>>, <<2128, 2088>>, <<2092, 2056>>,
      <<4176, 4136>>, <<1104, 1064>>, <<10000, 10000>>, <<3232, 3200>>,
      <<608, 800>>, <<1040, 1008>>, <<0, 0>> }

Near(c) ==
    {<<c[1] + dx, c[2] + dy>> : dx \in -Radius..Radius, dy \in -Radius..Radius}

Grid == {<<250 * i, 250 * j>> : i \in 0..GridMax, j \in 0..GridMax}

BandGrid == {<<1640 + 8 * i, 2340 + 8 * j>> : i \in 0..15, j \in 0..28}

\* (w, h) pairs of the image shapes explored; a dimension of a tensor shape
\* is never negative.
Shapes ==
    {s \in AllBuckets
        \cup Midpoints(BUCKETS_NB1) \cup Midpoints(BUCKETS_NB2_1K)
        \cup Midpoints(BUCKETS_NB2_2K) \cup Midpoints(BUCKETS_NB2_4K)
        \cup UNION {Near(c) : c \in Centers}
        \cup Grid \cup BandGrid :
     s[1] >= 0 /\ s[2] >= 0}

\* Strings that are none of the offered preset names.
OtherPresets == { <<"A","u","t","o">>, <<"2","K","+","1","K">> }

Presets == INPUT_TYPES \cup OtherPresets

----------------------------------------------------------------------------
(* The state machine                                                       *)

Init ==
    /\ preset \in Presets
    /\ image \in {[w |-> s[1], h |-> s[2]] : s \in Shapes}
    /\ pc = "call"
    /\ result = <<>>

\* calculate_size(image, preset) (lines 149-174).
CalculateSize ==
    /\ pc = "call"
    /\ result' = SizeResult(image, preset)
    /\ pc' = "done"
    /\ UNCHANGED <<preset, image>>

Next == CalculateSize

Spec == Init /\ [][Next]_vars

----------------------------------------------------------------------------
(* Vocabulary of the properties                                            *)

Done == pc = "done"
Positive == image.w >= 1 /\ image.h >= 1
Offered == preset \in INPUT_TYPES
Out == <<result[1], result[2]>>
Label == result[4]
Tier == SelectBuckets(preset).target_buckets

\* Squared distance from the input to bucket i of the selected list.
D(i) == (image.w - Tier[i][1]) ^ 2 + (image.h - Tier[i][2]) ^ 2
MinD == CHOOSE d \in {D(i) : i \in 1..Len(Tier)} : \A j \in 1..Len(Tier) : d <= D(j)

\* The stage that decides the result of the call in the current state.
OverrideStage == OverrideFires(image.w, image.h)
FallbackStage == ~OverrideStage /\ FallbackFires(MinD, Tier)
NearestStage == ~OverrideStage /\ ~FallbackFires(MinD, Tier)

\* Bucket i is the first bucket of the list at minimum distance.
FirstNearest(i) ==
    /\ \A j \in 1..Len(Tier) : D(i) <= D(j)
    /\ \A j \in 1..(i - 1) : D(j) > D(i)

\* x is the smallest multiple of 32 that is >= v.
SmallestMultipleAbove(x, v) == x % 32 = 0 /\ x >= v /\ x - v < 32

\* C1: for the four presets and every input with width >= 1 and height >= 1
\* the returned width and height are positive multiples of 32.
C1_AlignedPositive ==
    (Done /\ Offered /\ Positive) =>
        /\ result[1] > 0 /\ result[2] > 0
        /\ result[1] % 32 = 0 /\ result[2] % 32 = 0

\* A call decided by the dynamic fallback on an input that is not aligned.
C1_Witness ==
    /\ Done /\ Offered /\ Positive /\ FallbackStage
    /\ image.w % 32 # 0 /\ image.h % 32 # 0
    /\ result[1] % 32 = 0 /\ result[2] % 32 = 0

\* C2: when neither the override nor the fallback fires, the result is a
\* bucket of the selected list at minimum squared distance, and among the
\* buckets at that distance the first in list order.
C2_NearestFirst ==
    (Done /\ Offered /\ Positive /\ NearestStage) =>
        \E i \in 1..Len(Tier) : Out = Tier[i] /\ FirstNearest(i)

\* A call whose input is equidistant from two buckets of the list.
C2_Witness ==
    /\ Done /\ Offered /\ Positive /\ NearestStage
    /\ \E i, j \in 1..Len(Tier) : i < j /\ D(i) = MinD /\ D(j) = MinD /\ Out = Tier[i]

\* C3: the returned pair is a bucket of the selected preset's own list or
\* the dynamic fallback (ceil(w/32)*32, ceil(h/32)*32).
C3_OwnTierOrDynamic ==
    (Done /\ Offered /\ Positive) =>
        \/ Out \in SeqRange(Tier)
        \/ SmallestMultipleAbove(result[1], image.w)
             /\ SmallestMultipleAbove(result[2], image.h)

\* C4 as stated: in a list of more than 20 buckets, with the override not
\* firing, the fallback is returned when the minimum squared distance
\* exceeds 2000 and the nearest bucket when it is at most 2000.
C4_Threshold2000 ==
    (Done /\ Offered /\ Positive /\ Len(Tier) > 20 /\ ~OverrideStage) =>
        /\ MinD > 2000 => Out = <<CeilTo32(image.w), CeilTo32(image.h)>>
        /\ MinD <= 2000 => \E i \in 1..Len(Tier) : Out = Tier[i] /\ D(i) = MinD

\* C4 amended: the threshold is 8000.
C4_Threshold8000 ==
    (Done /\ Len(Tier) > 20 /\ ~OverrideStage) =>
        /\ MinD > 8000 => Out = <<CeilTo32(image.w), CeilTo32(image.h)>>
        /\ MinD <= 8000 => \E i \in 1..Len(Tier) : Out = Tier[i] /\ D(i) = MinD

\* A call on a dense list whose minimum squared distance is exactly 8000 and
\* which keeps the nearest bucket, the dynamic size being a different pair.
C4_Witness ==
    /\ Done /\ Len(Tier) > 20 /\ ~OverrideStage
    /\ MinD = 8000
    /\ Out \in SeqRange(Tier)
    /\ Out # <<CeilTo32(image.w), CeilTo32(image.h)>>

\* C5: when the dynamic fallback decides the result of a positive input,
\* each output dimension is the smallest multiple of 32 that is >= the input
\* dimension; (10000, 10000) with the 2K preset gives (10016, 10016).
C5_FallbackCeiling ==
    /\ (Done /\ Positive /\ FallbackStage) =>
          /\ SmallestMultipleAbove(result[1], image.w)
          /\ SmallestMultipleAbove(result[2], image.h)
    /\ (Done /\ preset = PresetNB2_2K /\ image = [w |-> 10000, h |-> 10000]) =>
          Out = <<10016, 10016>>

\* The call of the example, decided by the fallback.
C5_Witness ==
    /\ Done /\ preset = PresetNB2_2K /\ image = [w |-> 10000, h |-> 10000]
    /\ FallbackStage
    /\ Out = <<10016, 10016>>

\* C6: an input that is a bucket of the selected preset's list is returned
\* unchanged.
C6_ExactMatchFixedPoint ==
    (Done /\ Offered /\ <<image.w, image.h>> \in SeqRange(Tier)) =>
        Out = <<image.w, image.h>>

\* C7: an input whose width or height is zero or negative yields no result,
\* for any of the offered presets.
C7_DegenerateRejected ==
    (Done /\ Offered /\ (image.w <= 0 \/ image.h <= 0)) => result = <<>>

\* C8: a preset that is none of the offered names yields no result (no
\* size resolved against some tier's list), here for a positive input.
C8_UnknownTierRejected ==
    (Done /\ Positive /\ preset \notin INPUT_TYPES) => result = <<>>

\* The resolved ratio w_out / h_out in lowest terms.
OutG == GCD(Abs(result[1]), Abs(result[2]))
OutA == result[1] \div OutG
OutB == result[2] \div OutG

\* |w_out / h_out - val / 10^6| * OutB * 10^6 for a table entry, and the
\* least such value over the table (h_out > 0).
ARDiff(i) == Abs(OutA * 1000000 - SUPPORTED_ARS[i].val * OutB)
MinARDiff ==
    CHOOSE d \in {ARDiff(i) : i \in 1..Len(SUPPORTED_ARS)} :
        \A j \in 1..Len(SUPPORTED_ARS) : d <= ARDiff(j)
NearestARs == {SUPPORTED_ARS[i].name : i \in {j \in 1..Len(SUPPORTED_ARS) : ARDiff(j) = MinARDiff}}

\* 0.01 on the scale of ARDiff.
Tolerance == 10000 * OutB

\* C9 as stated: for a resolved pair with h_out > 0 the label is the name of
\* the supported ratio nearest to w_out / h_out when that smallest difference
\* is at most 0.01, and "auto" when it exceeds 0.01.
C9_LabelWithinTolerance ==
    (Done /\ Offered /\ Positive /\ result[2] > 0) =>
        /\ MinARDiff <= Tolerance => Label \in NearestARs
        /\ MinARDiff > Tolerance => Label = "auto"

\* C9 amended: the nearest name when the smallest difference is below 0.01,
\* "auto" when it exceeds 0.01, and when it is exactly 0.01 "auto" as well,
\* except 0.01 above 21:9 (ratio 2.343333), because the difference computed
\* in double precision is then 0.010000000000000009 > 0.01 (0.00999... above
\* 21:9).  (1344, 768) yields "auto" and (1024, 1024) yields "1:1".
C9_LabelStrictlyWithinTolerance ==
    /\ (Done /\ result[2] > 0) =>
          /\ MinARDiff < Tolerance => Label \in NearestARs
          /\ MinARDiff > Tolerance => Label = "auto"
          /\ MinARDiff = Tolerance =>
                Label = IF OutA = 2343333 /\ OutB = 1000000 THEN "21:9" ELSE "auto"
    /\ (Done /\ Out = <<1344, 768>>) => Label = "auto"
    /\ (Done /\ Out = <<1024, 1024>>) => Label = "1:1"

\* A resolved pair whose ratio is exactly 0.01 above 1:1, labelled "auto".
C9_Witness ==
    /\ Done /\ Out = <<3232, 3200>>
    /\ MinARDiff = Tolerance /\ NearestARs = {"1:1"}
    /\ Label = "auto"

\* The band of the manual override, as the claim words it.
InOverrideBand ==
    /\ 1650 < image.w /\ image.w < 1750
    /\ 2350 < image.h /\ image.h < 2550
    /\ (image.w - 1696) ^ 2 + (image.h - 2528) ^ 2 < 8000

\* What the nearest-match stage followed by the overflow fallback returns.
NearestThenFallback ==
    IF MinD > 8000 /\ Len(Tier) > 20
    THEN <<CeilTo32(image.w), CeilTo32(image.h)>>
    ELSE Tier[CHOOSE i \in 1..Len(Tier) : FirstNearest(i)]

\* C10: inside the band the result is (1696, 2528) whichever bucket is
\* nearest; outside it the result is that of the nearest-match stage followed
\* by the overflow fallback.  (1704, 2461) with the 2K preset is in the band.
C10_OverridePrecedence ==
    /\ (Done /\ InOverrideBand) => Out = <<1696, 2528>>
    /\ (Done /\ ~InOverrideBand) => Out = NearestThenFallback
    /\ (Done /\ preset = PresetNB2_2K /\ image = [w |-> 1704, h |-> 2461]) =>
          Out = <<1696, 2528>>

\* The documented case: the override wins although (1664, 2496) is nearer.
C10_Witness ==
    /\ Done /\ preset = PresetNB2_2K /\ image = [w |-> 1704, h |-> 2461]
    /\ InOverrideBand
    /\ NearestThenFallback = <<1664, 2496>>
    /\ Out = <<1696, 2528>>

====
